---- MODULE Spec2Model ----
(***************************************************************************)
(* Model of the overdose-data pipeline: clean_data.py (the batch Record    *)
(* Cleaner) and app.py (the Streamlit dashboard: load, filter, aggregate,  *)
(* outlier detection).                                                     *)
(*                                                                         *)
(* Representation.  A text value is a sequence of one-character strings,   *)
(* so that regular-expression search, lower(), strip(), title() and number *)
(* parsing are computed character by character.  A missing value (NaN) is  *)
(* the empty sequence: read_csv reads an empty field as NaN.  A float64    *)
(* cell is <<n>>.  A data-frame row is a function from column names to     *)
(* cells and a data frame is a sequence of rows.                           *)
(***************************************************************************)
EXTENDS Integers, Sequences, FiniteSets, TLC

VARIABLES
    \* ---- clean_data.py
    raw,              \* the raw CSV as read by pd.read_csv
    clean_df,         \* the script's working frame `df`
    cpc,              \* position of the cleaning script
    remaining_us,     \* the validation count
    message,          \* what the validation check printed
    saved,            \* the frame handed to to_csv
    \* ---- app.py
    csv,              \* clean_overdose_data.csv as the dashboard finds it
    observed,         \* groupby's default for `observed` in the installed pandas
    pc,               \* position of the dashboard script
    df,               \* the (cached) result of load_data()
    selected_states,  \* widget values
    selected_years,
    selected_drugs,
    filtered_df,
    metrics,          \* total deaths, average deaths, states selected
    trend_df,
    pie_df,
    fences,           \* Q1, Q3, IQR, upper_bound of each state of the loop
    outliers,
    outlier_report,
    \* ---- the upper fence as a function of one state's deaths
    vals, idx, newval, fence_before, fence_after, fpc

cleanVars == <<raw, clean_df, cpc, remaining_us, message, saved>>
dashVars  == <<csv, observed, pc, df, selected_states, selected_years,
               selected_drugs, filtered_df, metrics, trend_df, pie_df,
               fences, outliers, outlier_report>>
fenceVars == <<vals, idx, newval, fence_before, fence_after, fpc>>
vars      == <<cleanVars, dashVars, fenceVars>>

----------------------------------------------------------------------------
(* Bounds *)

MaxRaw   == 2    \* rows of a raw CSV given to the cleaner
MaxRows  == 3    \* rows of a raw CSV behind the dashboard's cleaned file
MaxN     == 4    \* deaths values of one state, for the fence
MaxDeath == 3    \* largest deaths value, for the fence

----------------------------------------------------------------------------
(* Text *)

NaN == <<>>

UpperCase == <<"A","B","C","D","E","F","G","H","I","J","K","L","M",
               "N","O","P","Q","R","S","T","U","V","W","X","Y","Z">>
LowerCase == <<"a","b","c","d","e","f","g","h","i","j","k","l","m",
               "n","o","p","q","r","s","t","u","v","w","x","y","z">>
Digits    == <<"0","1","2","3","4","5","6","7","8","9">>
Whitespace == {" ", "\t"}

IsUpper(c) == \E i \in 1..26 : UpperCase[i] = c
IsLower(c) == \E i \in 1..26 : LowerCase[i] = c
IsAlpha(c) == IsUpper(c) \/ IsLower(c)
IsDigit(c) == \E i \in 1..10 : Digits[i] = c

\* the characters of the model's texts
Characters ==
    {" ", "\t", "-", "."} \cup {Digits[i] : i \in 1..10}
        \cup {UpperCase[i] : i \in 1..26} \cup {LowerCase[i] : i \in 1..26}

lower_table ==
    [c \in Characters |->
        IF IsUpper(c) THEN LowerCase[CHOOSE i \in 1..26 : UpperCase[i] = c] ELSE c]
upper_table ==
    [c \in Characters |->
        IF IsLower(c) THEN UpperCase[CHOOSE i \in 1..26 : LowerCase[i] = c] ELSE c]
lower_char(c) == lower_table[c]
upper_char(c) == upper_table[c]

\* str.lower()
lower(s) == [i \in 1..Len(s) |-> lower_char(s[i])]

\* str.title(): a letter that follows a non-letter is upper-cased, any other
\* letter is lower-cased
title(s) ==
    [i \in 1..Len(s) |->
        IF i = 1 \/ ~IsAlpha(s[i-1]) THEN upper_char(s[i]) ELSE lower_char(s[i])]

\* str.strip()
RECURSIVE lstrip(_)
lstrip(s) ==
    IF s # <<>> /\ Head(s) \in Whitespace THEN lstrip(Tail(s)) ELSE s
RECURSIVE rstrip(_)
rstrip(s) ==
    IF s # <<>> /\ s[Len(s)] \in Whitespace
    THEN rstrip(SubSeq(s, 1, Len(s) - 1)) ELSE s
strip(s) == rstrip(lstrip(s))

\* astype(str) of a missing value is the text "nan"
astype_str(s) == IF s = NaN THEN <<"n","a","n">> ELSE s

\* the value of a digit string
RECURSIVE NatVal(_)
NatVal(s) ==
    IF s = <<>> THEN 0
    ELSE 10 * NatVal(SubSeq(s, 1, Len(s) - 1))
         + ((CHOOSE i \in 1..10 : Digits[i] = s[Len(s)]) - 1)
AllDigits(s) == s # <<>> /\ \A i \in 1..Len(s) : IsDigit(s[i])

\* pd.to_numeric(errors="coerce") of one cell: the number, or NaN for a text
\* that is no number
to_numeric_coerce(s) ==
    IF AllDigits(s) THEN <<NatVal(s)>>
    ELSE IF s # <<>> /\ Head(s) = "-" /\ AllDigits(Tail(s))
         THEN <<0 - NatVal(Tail(s))>>
         ELSE NaN
to_numeric(s) == to_numeric_coerce(s)

----------------------------------------------------------------------------
(* Regular expressions.  A pattern is a sequence of items <<class, quant>>: *)
(* class is one character or "\\s", quant is "1", "+" or "*".              *)

WS == "\\s"

Lit(s) == [i \in 1..Len(s) |-> <<s[i], "1">>]

ClassMatch(cls, c, ignorecase) ==
    IF cls = WS THEN c \in Whitespace
    ELSE IF ignorecase THEN lower_char(cls) = lower_char(c) ELSE cls = c

\* does pattern p, from item k on, match text s at position i
RECURSIVE MatchHere(_, _, _, _, _)
MatchHere(p, k, s, i, ic) ==
    IF k > Len(p) THEN TRUE
    ELSE LET here == i <= Len(s) /\ ClassMatch(p[k][1], s[i], ic) IN
         CASE p[k][2] = "1" -> here /\ MatchHere(p, k + 1, s, i + 1, ic)
           [] p[k][2] = "*" -> \/ MatchHere(p, k + 1, s, i, ic)
                               \/ here /\ MatchHere(p, k, s, i + 1, ic)
           [] p[k][2] = "+" -> here /\ (\/ MatchHere(p, k, s, i + 1, ic)
                                        \/ MatchHere(p, k + 1, s, i + 1, ic))

\* re.search(pattern, text, re.IGNORECASE) is not None
re_search(p, s, ic) == \E i \in 1..(Len(s) + 1) : MatchHere(p, 1, s, i, ic)

----------------------------------------------------------------------------
(* clean_data.py *)

\* us_patterns, lines 24-31
us_patterns_no_america ==
    << Lit(<<"u","n","i","t","e","d">>) \o << <<WS, "+">> >>
           \o Lit(<<"s","t","a","t","e","s">>),
       Lit(<<"u","s">>),
       Lit(<<"u",".","s",".">>),
       Lit(<<"u","s","a">>),
       << <<WS, "*">>, <<"u", "1">>, <<WS, "*">>, <<"s", "1">>, <<WS, "*">> >> >>
us_patterns ==
    << Lit(<<"u","n","i","t","e","d">>) \o << <<WS, "+">> >>
           \o Lit(<<"s","t","a","t","e","s">>),
       Lit(<<"u","s">>),
       Lit(<<"u",".","s",".">>),
       Lit(<<"u","s","a">>),
       Lit(<<"a","m","e","r","i","c","a">>),
       << <<WS, "*">>, <<"u", "1">>, <<WS, "*">>, <<"s", "1">>, <<WS, "*">> >> >>

\* the lambda of us_mask, line 35: TRUE for a row that is kept
us_mask_all(x) ==
    ~ \A k \in 1..Len(us_patterns) : re_search(us_patterns[k], astype_str(x), TRUE)
us_mask(x) ==
    ~ \E k \in 1..Len(us_patterns) : re_search(us_patterns[k], astype_str(x), TRUE)

\* the pattern of the validation check, line 55: an alternation of five
validation_pattern ==
    { Lit(<<"u","n","i","t","e","d">>) \o << <<WS, "+">> >>
           \o Lit(<<"s","t","a","t","e","s">>),
      Lit(<<"u","s">>),
      Lit(<<"u",".","s",".">>),
      Lit(<<"u","s","a">>),
      Lit(<<"a","m","e","r","i","c","a">>) }

\* Series.str.contains(pat, case=False, regex=True) of one cell
str_contains(s, alternatives) ==
    \E p \in alternatives : re_search(p, s, TRUE)

RenamedColumn(c) ==
    CASE c = "State Name" -> "state"
      [] c = "Year"       -> "year"
      [] c = "Month"      -> "month"
      [] c = "Indicator"  -> "drug_type"
      [] c = "Data Value" -> "deaths"
      [] OTHER            -> c

\* df.rename(columns=...), lines 8-14
rename(frame) ==
    [i \in 1..Len(frame) |->
        [c \in {RenamedColumn(k) : k \in DOMAIN frame[i]} |->
            frame[i][CHOOSE k \in DOMAIN frame[i] : RenamedColumn(k) = c]]]

KeptColumns == {"state", "year", "month", "drug_type", "deaths"}

\* df[[...]], line 17
keep_columns(frame) ==
    [i \in 1..Len(frame) |-> [c \in KeptColumns |-> frame[i][c]]]

\* df.dropna(), lines 20 and 51
RowHasNoNaN(r) == \A c \in DOMAIN r : r[c] # NaN
dropna_none(frame) == frame
dropna(frame) == SelectSeq(frame, RowHasNoNaN)

\* df[us_mask], line 39
KeepNonUS(r) == us_mask(r["state"])
remove_us(frame) == SelectSeq(frame, KeepNonUS)

\* lines 42-44
NotSummary(r) == lower(r["drug_type"]) \notin
    { <<"n","u","m","b","e","r"," ","o","f"," ","d","e","a","t","h","s">> }
remove_summary(frame) == SelectSeq(frame, NotSummary)

\* line 47
IsOpioid(r) == str_contains(r["drug_type"], { Lit(<<"o","p","i","o","i","d">>) })
opioid_only(frame) == SelectSeq(frame, IsOpioid)

\* line 50: the coerced values go to a column named " deaths"
add_numeric_deaths(frame) ==
    [i \in 1..Len(frame) |->
        frame[i] @@ (" deaths" :> to_numeric(frame[i]["deaths"]))]

\* lines 54-58
count_remaining_us(frame) ==
    Cardinality({i \in 1..Len(frame) :
                    str_contains(frame[i]["state"], validation_pattern)})

----------------------------------------------------------------------------
(* Raw inputs *)

BoundedSeq(S, n) == UNION {[1..k -> S] : k \in 0..n}

RawColumns == {"State Name", "Year", "Month", "Indicator", "Data Value", "Period"}

RawRow(s, y, m, d, v) ==
    [c \in RawColumns |->
        CASE c = "State Name" -> s
          [] c = "Year"       -> y
          [] c = "Month"      -> m
          [] c = "Indicator"  -> d
          [] c = "Data Value" -> v
          [] c = "Period"     -> <<"1","2">>]

Ohio     == <<"O","h","i","o">>
Texas    == <<"T","e","x","a","s">>
Opioids  == <<"O","p","i","o","i","d","s">>
Synthetic == <<"S","y","n","t","h","e","t","i","c"," ","o","p","i","o","i","d","s">>
January  == <<"J","a","n","u","a","r","y">>
March    == <<"M","a","r","c","h">>
Y2020    == <<"2","0","2","0">>
Y2021    == <<"2","0","2","1">>

\* the spellings of the national rollup named in the specification
AggregateNames ==
    { <<"U","n","i","t","e","d"," ","S","t","a","t","e","s">>,
      <<"U","S">>, <<"U",".","S",".">>, <<"U","S","A">>,
      <<"A","m","e","r","i","c","a">>, <<"u","s">> }

RawStates ==
    AggregateNames \cup
    { <<"U"," ","S">>, Texas,
      <<"M","a","s","s","a","c","h","u","s","e","t","t","s">>, NaN }

RawDeaths == { NaN, <<"a","b","c">>, <<"-","1">>, <<"0">> }

RawDrugs ==
    { NaN, <<"C","o","c","a","i","n","e">>, Synthetic,
      <<"N","u","m","b","e","r"," ","o","f"," ","D","e","a","t","h","s">> }

\* one field varies at a time around a row that the cleaner keeps
RawRows ==
    {RawRow(Ohio, Y2020, January, Opioids, <<"5">>)}
    \cup {RawRow(s, Y2020, January, Opioids, <<"5">>) : s \in RawStates}
    \cup {RawRow(Ohio, Y2020, January, Opioids, v) : v \in RawDeaths}
    \cup {RawRow(Ohio, Y2020, January, d, <<"5">>) : d \in RawDrugs}
    \cup {RawRow(Ohio, NaN, January, Opioids, <<"5">>),
          RawRow(Ohio, Y2021, NaN, Opioids, <<"5">>)}

RawInputs == BoundedSeq(RawRows, MaxRaw)

----------------------------------------------------------------------------
(* clean_data.py as a script: one action per statement *)

CleanIdle ==
    /\ raw = <<>> /\ clean_df = <<>> /\ cpc = "idle"
    /\ remaining_us = 0 /\ message = "none" /\ saved = <<>>
DashIdle ==
    /\ csv = <<>> /\ observed = FALSE /\ pc = "idle" /\ df = <<>>
    /\ selected_states = {} /\ selected_years = <<0, 0>> /\ selected_drugs = {}
    /\ filtered_df = <<>> /\ metrics = <<>> /\ trend_df = {} /\ pie_df = {}
    /\ fences = <<>> /\ outliers = <<>> /\ outlier_report = "none"
FenceIdle ==
    /\ vals = <<>> /\ idx = 0 /\ newval = 0
    /\ fence_before = 0 /\ fence_after = 0 /\ fpc = "idle"

\* line 5
InitClean ==
    /\ raw \in RawInputs
    /\ clean_df = raw
    /\ cpc = "read"
    /\ remaining_us = 0 /\ message = "none" /\ saved = <<>>
    /\ DashIdle /\ FenceIdle

CleanStep(from, to, frame) ==
    /\ cpc = from
    /\ cpc' = to
    /\ clean_df' = frame
    /\ UNCHANGED <<raw, remaining_us, message, saved, dashVars, fenceVars>>

Rename        == CleanStep("read", "renamed", rename(clean_df))
KeepColumns   == CleanStep("renamed", "selected", keep_columns(clean_df))
DropMissing   == CleanStep("selected", "complete", dropna(clean_df))
RemoveUS      == CleanStep("complete", "us_removed", remove_us(clean_df))
RemoveSummary == CleanStep("us_removed", "summary_removed", remove_summary(clean_df))
OpioidOnly    == CleanStep("summary_removed", "opioid_only", opioid_only(clean_df))
\* lines 50-51
CoerceDeaths  == CleanStep("opioid_only", "coerced",
                           dropna(add_numeric_deaths(clean_df)))

\* lines 54-64
Validate ==
    /\ cpc = "coerced"
    /\ cpc' = "validated"
    /\ remaining_us' = count_remaining_us(clean_df)
    /\ message' = IF remaining_us' > 0 THEN "warning" ELSE "ok"
    /\ UNCHANGED <<raw, clean_df, saved, dashVars, fenceVars>>

\* line 67
Save ==
    /\ cpc = "validated"
    /\ cpc' = "saved"
    /\ saved' = clean_df
    /\ UNCHANGED <<raw, clean_df, remaining_us, message, dashVars, fenceVars>>

NextClean ==
    \/ Rename \/ KeepColumns \/ DropMissing \/ RemoveUS \/ RemoveSummary
    \/ OpioidOnly \/ CoerceDeaths \/ Validate \/ Save

SpecClean == InitClean /\ [][NextClean]_vars

\* the whole script as a function of the raw frame
clean_pipeline(frame) ==
    dropna(add_numeric_deaths(opioid_only(remove_summary(remove_us(
        dropna(keep_columns(rename(frame))))))))

----------------------------------------------------------------------------
(* Claims about clean_data.py *)

RawStateOf(i) == raw[i]["State Name"]

\* C1: no saved record has a state that one of the six aggregate-name
\* patterns finds (ignoring case), and no raw record whose region is one of
\* the canonical spellings is in the saved output
C1_NoAggregateRegionSaved ==
    cpc = "saved" =>
        /\ \A i \in 1..Len(saved) : \A k \in 1..6 :
               ~ re_search(us_patterns[k], saved[i]["state"], TRUE)
        /\ \A i \in 1..Len(saved) : saved[i]["state"] \notin AggregateNames
C1_Witness ==
    /\ cpc = "saved"
    /\ Len(saved) = 1
    /\ Len(raw) = 2
    /\ \E i \in 1..2 : RawStateOf(i) \in AggregateNames

C3_ExactlyFiveFields ==
    cpc = "saved" =>
        \A i \in 1..Len(saved) :
            DOMAIN saved[i] = {"state", "year", "month", "drug_type", "deaths"}

\* C10: the validation check counts no residual aggregate-region record, so
\* the warning is never printed
C10_ValidationFindsNothing ==
    cpc \in {"validated", "saved"} => remaining_us = 0 /\ message = "ok"
C10_Witness ==
    /\ cpc = "validated"
    /\ Len(clean_df) = 1
    /\ \E i \in 1..Len(raw) :
           str_contains(RawStateOf(i), validation_pattern)

----------------------------------------------------------------------------
(* app.py: load_data *)

\* us_patterns of load_data, lines 23-30
app_us_patterns ==
    << Lit(<<"u","n","i","t","e","d">>) \o << <<WS, "+">> >>
           \o Lit(<<"s","t","a","t","e","s">>),
       Lit(<<"u","s">>),
       Lit(<<"u",".","s",".">>),
       Lit(<<"u","s","a">>),
       Lit(<<"a","m","e","r","i","c","a">>),
       << <<WS, "*">>, <<"u", "1">>, <<WS, "*">>, <<"s", "1">>, <<WS, "*">> >> >>

\* line 32
app_us_mask(x) ==
    ~ \E k \in 1..Len(app_us_patterns) : re_search(app_us_patterns[k], x, TRUE)

\* lines 44-47
month_order ==
    << <<"J","a","n","u","a","r","y">>, <<"F","e","b","r","u","a","r","y">>,
       <<"M","a","r","c","h">>, <<"A","p","r","i","l">>, <<"M","a","y">>,
       <<"J","u","n","e">>, <<"J","u","l","y">>, <<"A","u","g","u","s","t">>,
       <<"S","e","p","t","e","m","b","e","r">>, <<"O","c","t","o","b","e","r">>,
       <<"N","o","v","e","m","b","e","r">>, <<"D","e","c","e","m","b","e","r">> >>

\* pd.Categorical(values, categories=month_order): a value outside the
\* categories becomes NaN
categorical(m) ==
    IF \E k \in 1..Len(month_order) : month_order[k] = m THEN m ELSE NaN

\* lines 18-20: the text columns
normalize_text(frame) ==
    [i \in 1..Len(frame) |->
        [frame[i] EXCEPT
            !["state"]     = lower(strip(astype_str(@))),
            !["month"]     = strip(astype_str(@)),
            !["drug_type"] = strip(astype_str(@))]]

AppKeepNonUS(r) == app_us_mask(r["state"])

\* lines 37-52: title case, year as int, deaths as number, month as category
cast_types(frame) ==
    [i \in 1..Len(frame) |->
        [frame[i] EXCEPT
            !["state"]  = title(@),
            !["year"]   = to_numeric(@)[1],
            !["deaths"] = to_numeric(@),
            !["month"]  = categorical(@)]]

HasDeaths(r) == r["deaths"] # NaN

\* load_data(), lines 14-57
load_data(file) ==
    SelectSeq(cast_types(SelectSeq(normalize_text(file), AppKeepNonUS)), HasDeaths)

----------------------------------------------------------------------------
(* app.py: the script body *)

Range(f) == {f[i] : i \in DOMAIN f}

Column(frame, c) == {frame[i][c] : i \in 1..Len(frame)}

Min(S) == CHOOSE x \in S : \A y \in S : x <= y
Max(S) == CHOOSE x \in S : \A y \in S : x >= y

\* order of characters, as far as the texts of the model use them
CharOrder ==
    <<" ", "-", ".">> \o Digits \o UpperCase \o LowerCase
Ord(c) == CHOOSE i \in 1..Len(CharOrder) : CharOrder[i] = c

RECURSIVE StrLess(_, _)
StrLess(a, b) ==
    IF b = <<>> THEN FALSE
    ELSE IF a = <<>> THEN TRUE
    ELSE IF Head(a) = Head(b) THEN StrLess(Tail(a), Tail(b))
    ELSE Ord(Head(a)) < Ord(Head(b))

\* sorted(series.unique())
RECURSIVE sorted(_)
sorted(S) ==
    IF S = {} THEN <<>>
    ELSE LET m == CHOOSE x \in S : \A y \in S : x = y \/ StrLess(x, y)
         IN  <<m>> \o sorted(S \ {m})

\* states[:3], line 72
first_three(q) == SubSeq(q, 1, IF Len(q) < 3 THEN Len(q) ELSE 3)

Deaths(r) == r["deaths"][1]

RECURSIVE SumDeaths(_)
SumDeaths(frame) ==
    IF frame = <<>> THEN 0 ELSE Deaths(Head(frame)) + SumDeaths(Tail(frame))

between(y, range) == range[1] <= y /\ y <= range[2]

\* Series.isin(values)
isin_or_all(x, values) == values = {} \/ x \in values
isin(x, values) == x \in values

\* the row mask of lines 88-92
row_selected(r, ss, sy, sd) ==
    /\ isin(r["state"], ss)
    /\ between(r["year"], sy)
    /\ isin(r["drug_type"], sd)

apply_filters(frame, ss, sy, sd) ==
    LET keep(r) == row_selected(r, ss, sy, sd) IN SelectSeq(frame, keep)

\* lines 96-98; the mean of no value is NaN, else total over count
compute_metrics(frame) ==
    [ total   |-> SumDeaths(frame),
      average |-> IF frame = <<>> THEN NaN ELSE <<SumDeaths(frame), Len(frame)>>,
      states  |-> Cardinality(Column(frame, "state")) ]

MonthOrdinal(m) == CHOOSE k \in 1..Len(month_order) : month_order[k] = m

\* the groups of groupby(["year", "month", "state"]), line 107.  Rows with a
\* NaN month are in no group.  With observed=False the groups are the
\* product of the years, the twelve categories and the states of the frame.
trend_keys(frame, obs) ==
    IF obs
    THEN {<<frame[i]["year"], frame[i]["month"], frame[i]["state"]>> :
             i \in {j \in 1..Len(frame) : frame[j]["month"] # NaN}}
    ELSE Column(frame, "year") \X Range(month_order) \X Column(frame, "state")

\* lines 105-112
trend_of(frame, obs) ==
    { [ year  |-> k[1], month |-> k[2], state |-> k[3],
        deaths |-> LET in(r) == /\ r["year"] = k[1] /\ r["month"] = k[2]
                                /\ r["state"] = k[3]
                   IN  SumDeaths(SelectSeq(frame, in)),
        year_month_dt |-> <<k[1], MonthOrdinal(k[2])>> ] :
      k \in trend_keys(frame, obs) }

\* the frame the pie chart groups, line 155
pie_input_filtered(frame, filtered, sy) == filtered
pie_input(frame, filtered, sy) ==
    LET in(r) == between(r["year"], sy) IN SelectSeq(frame, in)

\* groupby("drug_type").sum(), lines 154-158
pie_of(frame) ==
    { [ drug_type |-> d,
        deaths |-> LET in(r) == r["drug_type"] = d
                   IN  SumDeaths(SelectSeq(frame, in)) ] :
      d \in Column(frame, "drug_type") }

----------------------------------------------------------------------------
(* app.py: outlier detection.  Quartiles of integers by linear            *)
(* interpolation are multiples of 1/4 and the fence a multiple of 1/8:     *)
(* Q1, Q3, IQR and upper_bound are held in eighths.                        *)

RECURSIVE insert_sorted(_, _)
insert_sorted(x, q) ==
    IF q = <<>> THEN <<x>>
    ELSE IF x <= Head(q) THEN <<x>> \o q
    ELSE <<Head(q)>> \o insert_sorted(x, Tail(q))
RECURSIVE sort_values(_)
sort_values(q) ==
    IF q = <<>> THEN <<>> ELSE insert_sorted(Head(q), sort_values(Tail(q)))

\* Series.quantile(quarters / 4), interpolation="linear" (the default): the
\* value at position (n - 1) * q of the sorted values, in eighths
quantile_lower(values, quarters) ==
    LET s == sort_values(values)
        h == (Len(s) - 1) * quarters
    IN  8 * s[(h \div 4) + 1]
quantile(values, quarters) ==
    LET s  == sort_values(values)
        h  == (Len(s) - 1) * quarters
        lo == (h \div 4) + 1
        fr == h % 4
    IN  IF fr = 0 THEN 8 * s[lo]
        ELSE 8 * s[lo] + 2 * fr * (s[lo + 1] - s[lo])

\* lines 178-179
lower_bound_by_mistake(Q1, Q3) == Q1 - (3 * (Q3 - Q1)) \div 2
upper_bound(Q1, Q3) == Q3 + (3 * (Q3 - Q1)) \div 2

\* lines 176-179 for the deaths of one state
fence_of(values) ==
    LET Q1 == quantile(values, 1)
        Q3 == quantile(values, 3)
    IN  [Q1 |-> Q1, Q3 |-> Q3, IQR |-> Q3 - Q1, upper_bound |-> upper_bound(Q1, Q3)]

\* filtered_df["state"].unique(): in order of first appearance
RECURSIVE unique(_)
unique(q) ==
    IF q = <<>> THEN <<>>
    ELSE LET rest == unique(SubSeq(q, 1, Len(q) - 1))
         IN  IF q[Len(q)] \in Range(rest) THEN rest ELSE Append(rest, q[Len(q)])

state_data(frame, st) ==
    LET in(r) == r["state"] = st IN SelectSeq(frame, in)

deaths_of(frame) == [i \in 1..Len(frame) |-> Deaths(frame[i])]

\* line 180
state_outliers(frame, st) ==
    LET data == state_data(frame, st)
        ub   == fence_of(deaths_of(data)).upper_bound
        out(r) == 8 * Deaths(r) > ub
    IN  SelectSeq(data, out)

RECURSIVE concat_outliers(_, _)
concat_outliers(frame, sts) ==
    IF sts = <<>> THEN <<>>
    ELSE state_outliers(frame, Head(sts)) \o concat_outliers(frame, Tail(sts))

\* lines 173-186
detect_outliers(frame) ==
    concat_outliers(frame, unique([i \in 1..Len(frame) |-> frame[i]["state"]]))

fences_of(frame) ==
    [st \in Column(frame, "state") |-> fence_of(deaths_of(state_data(frame, st)))]

----------------------------------------------------------------------------
(* The dashboard: each interaction reruns the script from the top *)

OhioScenario ==
    [i \in 1..6 |->
        RawRow(Ohio, Y2020, January, Opioids,
               << <<"1","0">>, <<"1","2">>, <<"1","1">>, <<"1","3">>,
                  <<"1","2">>, <<"9","0">> >>[i])]

DashRows ==
    { RawRow(Texas, Y2021, March, Opioids, <<"1","0","0">>),
      RawRow(Texas, Y2021, March, Opioids, <<"5","0">>),
      RawRow(Ohio, Y2020, January, Synthetic, <<"1","0">>),
      RawRow(Ohio, Y2021, <<"S","e","p","t">>, Opioids, <<"7">>),
      RawRow(<<"t","e","x","a","s">>, Y2020, March, Opioids, <<"0">>) }

\* the cleaned files: what clean_data.py writes for these raw files
DashFiles ==
    {clean_pipeline(r) : r \in BoundedSeq(DashRows, MaxRows) \cup {OhioScenario}}

InitDash ==
    /\ csv \in DashFiles
    /\ observed \in BOOLEAN
    /\ pc = "start"
    /\ df = <<>>
    /\ selected_states = {} /\ selected_years = <<0, 0>> /\ selected_drugs = {}
    /\ filtered_df = <<>> /\ metrics = <<>> /\ trend_df = {} /\ pie_df = {}
    /\ fences = <<>> /\ outliers = <<>> /\ outlier_report = "none"
    /\ CleanIdle /\ FenceIdle

\* lines 87-195 for the widget values ss, sy, sd
Render(frame, ss, sy, sd) ==
    /\ selected_states' = ss
    /\ selected_years' = sy
    /\ selected_drugs' = sd
    /\ filtered_df' = apply_filters(frame, ss, sy, sd)
    /\ metrics' = compute_metrics(filtered_df')
    /\ trend_df' = trend_of(filtered_df', observed)
    /\ pie_df' = pie_of(pie_input(frame, filtered_df', sy))
    /\ fences' = fences_of(filtered_df')
    /\ outliers' = detect_outliers(filtered_df')
    /\ outlier_report' = IF outliers' # <<>> THEN "warning" ELSE "success"
    /\ pc' = "rendered"

\* the first run: load_data() fills the cache, the widgets take their
\* defaults.  On an empty frame int(df["year"].min()) raises (line 76).
FirstRun ==
    /\ pc = "start"
    /\ df' = load_data(csv)
    /\ IF df' = <<>>
       THEN /\ pc' = "error"
            /\ UNCHANGED <<selected_states, selected_years, selected_drugs,
                           filtered_df, metrics, trend_df, pie_df, fences,
                           outliers, outlier_report>>
       ELSE Render(df',
                   Range(first_three(sorted(Column(df', "state")))),
                   <<Min(Column(df', "year")), Max(Column(df', "year"))>>,
                   Range(sorted(Column(df', "drug_type"))))
    /\ UNCHANGED <<csv, observed, cleanVars, fenceVars>>

\* the state multiselect changes
SelectStates ==
    /\ pc = "rendered"
    /\ \E ss \in SUBSET Column(df, "state") :
        /\ ss # selected_states
        /\ Render(df, ss, selected_years, selected_drugs)
    /\ UNCHANGED <<csv, observed, df, cleanVars, fenceVars>>

\* the year slider changes
SelectYears ==
    /\ pc = "rendered"
    /\ \E lo \in Min(Column(df, "year"))..Max(Column(df, "year")) :
       \E hi \in lo..Max(Column(df, "year")) :
        /\ <<lo, hi>> # selected_years
        /\ Render(df, selected_states, <<lo, hi>>, selected_drugs)
    /\ UNCHANGED <<csv, observed, df, cleanVars, fenceVars>>

\* the drug multiselect changes
SelectDrugs ==
    /\ pc = "rendered"
    /\ \E sd \in SUBSET Column(df, "drug_type") :
        /\ sd # selected_drugs
        /\ Render(df, selected_states, selected_years, sd)
    /\ UNCHANGED <<csv, observed, df, cleanVars, fenceVars>>

NextDash == FirstRun \/ SelectStates \/ SelectYears \/ SelectDrugs

Spec == InitDash /\ [][NextDash]_vars

----------------------------------------------------------------------------
(* The upper fence of one state's deaths, before and after one value is   *)
(* replaced by a larger one                                                *)

InitFence ==
    /\ vals \in UNION {[1..n -> 0..MaxDeath] : n \in 1..MaxN}
    /\ idx \in 1..Len(vals)
    /\ newval \in (vals[idx] + 1)..(MaxDeath + 1)
    /\ fence_before = 0 /\ fence_after = 0
    /\ fpc = "start"
    /\ CleanIdle /\ DashIdle

ComputeFences ==
    /\ fpc = "start"
    /\ fence_before' = fence_of(vals).upper_bound
    /\ fence_after' = fence_of([vals EXCEPT ![idx] = newval]).upper_bound
    /\ fpc' = "done"
    /\ UNCHANGED <<vals, idx, newval, cleanVars, dashVars>>

NextFence == ComputeFences

SpecFence == InitFence /\ [][NextFence]_vars

----------------------------------------------------------------------------
(* Claims about app.py *)

Loaded == load_data(csv)

Matching ==
    {i \in 1..Len(df) :
        /\ df[i]["state"] \in selected_states
        /\ selected_years[1] <= df[i]["year"]
        /\ df[i]["year"] <= selected_years[2]
        /\ df[i]["drug_type"] \in selected_drugs}

Occurrences(frame, r) == Cardinality({i \in 1..Len(frame) : frame[i] = r})

\* C4: after any sequence of filter changes the filtered set is exactly the
\* records of the loaded dataset that meet the current state, year and drug
\* selections; the loaded dataset is unchanged; an empty state or drug
\* selection gives no row
C4_FilteredIsExactSubset ==
    pc = "rendered" =>
        /\ df = Loaded
        /\ Len(filtered_df) = Cardinality(Matching)
        /\ \A r \in Range(df) :
               Occurrences(filtered_df, r) =
                   Cardinality({i \in Matching : df[i] = r})
        /\ (selected_states = {} \/ selected_drugs = {}) => filtered_df = <<>>
C4_Witness ==
    /\ pc = "rendered"
    /\ Len(df) = 3
    /\ Len(filtered_df) = 1
    /\ selected_states # Column(df, "state")
    /\ selected_years[1] = selected_years[2]
    /\ selected_drugs # Column(df, "drug_type")

KeysOf(frame) ==
    {<<frame[i]["year"], frame[i]["month"], frame[i]["state"]>> :
        i \in 1..Len(frame)}

SumWhere(frame, y, m, st) ==
    LET in(r) == r["year"] = y /\ r["month"] = m /\ r["state"] = st
    IN  SumDeaths(SelectSeq(frame, in))

\* C5: the time-series aggregate has exactly one row per (year, month,
\* state) combination that occurs in the filtered set, and no other row,
\* with the sum of the deaths of the records of that combination
C5_TrendOneRowPerOccurringKey ==
    pc = "rendered" =>
        /\ {<<t.year, t.month, t.state>> : t \in trend_df} = KeysOf(filtered_df)
        /\ Cardinality(trend_df) = Cardinality(KeysOf(filtered_df))
        /\ \A t \in trend_df :
               t.deaths = SumWhere(filtered_df, t.year, t.month, t.state)

OhioDeaths == <<10, 12, 11, 13, 12, 90>>

OhioFiltered ==
    /\ pc = "rendered"
    /\ Column(filtered_df, "state") = {Ohio}
    /\ deaths_of(filtered_df) = OhioDeaths

\* C7 as stated: for Ohio with deaths [10,12,11,13,12,90], Q1 = 11,
\* Q3 = 12.75, IQR = 1.75, upper fence = 15.375 (88, 102, 14, 123 eighths),
\* and exactly the row with deaths 90 is flagged
C7_OhioFenceAsStated ==
    OhioFiltered =>
        /\ fences[Ohio] = [Q1 |-> 88, Q3 |-> 102, IQR |-> 14, upper_bound |-> 123]
        /\ deaths_of(outliers) = <<90>>

\* C7 amended: for Ohio with deaths [10,12,11,13,12,90], Q1 = 11.25,
\* Q3 = 12.75, IQR = 1.5, upper fence = 15.0 (90, 102, 12, 120 eighths), and
\* exactly the row with deaths 90 is flagged
C7_OhioFence ==
    OhioFiltered =>
        /\ fences[Ohio] = [Q1 |-> 90, Q3 |-> 102, IQR |-> 12, upper_bound |-> 120]
        /\ deaths_of(outliers) = <<90>>
        /\ outlier_report = "warning"
C7_Witness == OhioFiltered /\ Len(outliers) = 1

NothingMatches == Matching = {}

\* C8: when the criteria match no record the dashboard ends without error
\* with total 0, average 0, no state, empty aggregates and the "no
\* outliers" report
C8_EmptyResultIsZero ==
    (pc = "rendered" /\ NothingMatches) =>
        /\ metrics.total = 0
        /\ metrics.average # NaN
        /\ metrics.average[1] = 0
        /\ metrics.states = 0
        /\ trend_df = {}
        /\ outlier_report = "success"

InYears(frame) ==
    LET in(r) == selected_years[1] <= r["year"] /\ r["year"] <= selected_years[2]
    IN  SelectSeq(frame, in)

SumDrug(frame, d) ==
    LET in(r) == r["drug_type"] = d IN SumDeaths(SelectSeq(frame, in))

TrendFromFiltered ==
    \A t \in trend_df : t.deaths = SumWhere(filtered_df, t.year, t.month, t.state)

\* C9 as stated: the time-series aggregate and the per-drug aggregate are
\* both sums over the filtered set only
C9_AggregatesFromFilteredOnly ==
    pc = "rendered" =>
        /\ TrendFromFiltered
        /\ {p.drug_type : p \in pie_df} = Column(filtered_df, "drug_type")
        /\ \A p \in pie_df : p.deaths = SumDrug(filtered_df, p.drug_type)

\* C9 amended: the time-series aggregate is a sum over the filtered set
\* only; the per-drug aggregate is a sum over the records of the loaded
\* dataset in the selected year range, whatever their state and drug
C9_TrendFilteredPieYearOnly ==
    pc = "rendered" =>
        /\ TrendFromFiltered
        /\ {p.drug_type : p \in pie_df} = Column(InYears(df), "drug_type")
        /\ \A p \in pie_df : p.deaths = SumDrug(InYears(df), p.drug_type)
C9_Witness ==
    /\ pc = "rendered"
    /\ \E i \in 1..Len(df) :
        /\ df[i]["state"] \notin selected_states
        /\ df[i]["drug_type"] \notin selected_drugs
        /\ Deaths(df[i]) > 0
        /\ \E p \in pie_df :
              p.drug_type = df[i]["drug_type"] /\ p.deaths >= Deaths(df[i])
    /\ filtered_df # <<>>

----------------------------------------------------------------------------
(* Claims about the upper fence *)

\* C6 as stated: replacing any one value by a larger one never lowers the
\* upper fence
C6_FenceMonotonic ==
    fpc = "done" => fence_after >= fence_before

\* C6 amended: replacing a largest value by a larger one never lowers the
\* upper fence
C6_FenceMonotonicInMaximum ==
    (fpc = "done" /\ \A i \in 1..Len(vals) : vals[i] <= vals[idx]) =>
        fence_after >= fence_before
C6_Witness ==
    /\ fpc = "done"
    /\ Len(vals) = 4
    /\ \A i \in 1..Len(vals) : vals[i] <= vals[idx]
    /\ fence_after > fence_before

====
